---- MODULE Spec2Model ----
(***************************************************************************)
(* A model of scripts/fintrans.py (gess): the synthetic stream of ATM      *)
(* withdrawals.  FinTransSource.__init__ loads the ATM location table from *)
(* CSV files; FinTransSource.run emits one transaction per loop iteration, *)
(* now and then a fraudulent one derived from it, and logs statistics.     *)
(*                                                                         *)
(* Time is counted in whole seconds.  The clock advances only in           *)
(* sleep(DELAY); the statements between two sleeps read the same instant.  *)
(* A timestamp string (strftime, second precision) is represented by the   *)
(* number of seconds it renders.                                           *)
(***************************************************************************)
EXTENDS Integers, Sequences, FiniteSets, TLC

\* ------------------------------------------------------------ constants
DELAY == 1
SAMPLE_INTERVAL == 10
FRAUD_TICK_MIN == 5
FRAUD_TICK_MAX == 15
AMOUNTS == <<20, 50, 100, 200, 300, 400>>
\* random.randint(1, 1000) of the account id (line 106)
ACCOUNT_MIN == 1
ACCOUNT_MAX == 1000
\* random.randint(60, 600) of the fraud timestamp (line 135)
FRAUD_OFFSET_MIN == 60
FRAUD_OFFSET_MAX == 600
\* timedelta.seconds is the seconds part of a timedelta: 0 .. 86399
SECONDS_PER_DAY == 86400
\* len of strftime("%Y-%m-%d %H:%M:%S %z+0000") of a naive datetime
TIMESTAMP_LEN == 25
\* sys.getsizeof('') of a CPython 2 str on a 64-bit build
PY_STR_OVERHEAD == 37

\* ------------------------------------------------------------ bounds
\* the loop is followed for at most MaxIter iterations
MaxIter == 16
\* atm_loc_sources holds at most MaxFiles files
MaxFiles == 2
\* the clock reading when the program starts
StartClock == 1000

\* ------------------------------------------------------------ inputs
\* CSV rows as csv.reader yields them: lists of column strings (lon, lat, label)
RowA == <<"-121.86", "37.25", "Test ATM">>
RowB == <<"-121.90", "37.27", "Bank ATM">>
\* more columns than needed: the extra column is ignored
RowLong == <<"-121.90", "37.27", "Bank ATM", "24h">>
\* fewer than 3 columns
RowBad == <<"-121.86", "37.25">>

\* a file that open() cannot open
NoFile == [openable |-> FALSE, rows |-> <<>>]

CsvFile(rows) == [openable |-> TRUE, rows |-> rows]

FileSamples ==
  { NoFile,
    CsvFile(<<>>),
    CsvFile(<<RowA>>),
    CsvFile(<<RowA, RowLong>>),
    CsvFile(<<RowB, RowBad, RowA>>) }

RECURSIVE SeqsUpTo(_, _)
SeqsUpTo(S, n) ==
  IF n = 0 THEN { <<>> }
  ELSE LET shorter == SeqsUpTo(S, n - 1)
       IN  shorter \cup { Append(s, x) : s \in { t \in shorter : Len(t) = n - 1 }, x \in S }

SourceSamples == SeqsUpTo(FileSamples, MaxFiles)

\* two of the account numbers random.randint(1, 1000) can give
AccountSamples == { a \in ACCOUNT_MIN..ACCOUNT_MAX : a <= ACCOUNT_MIN + 1 }
\* the two ends of random.randint(60, 600)
OffsetSamples == { FRAUD_OFFSET_MIN, FRAUD_OFFSET_MAX }

\* ------------------------------------------------------------ strings
Digit(d) == <<"0", "1", "2", "3", "4", "5", "6", "7", "8", "9">>[d + 1]

\* str(n) of a non-negative int
RECURSIVE str(_)
str(n) == IF n < 10 THEN Digit(n) ELSE str(n \div 10) \o Digit(n % 10)

\* str(uuid.uuid1()): a time-ordered id, one per call, in hex digits and dashes
\* mutant: only the low three bits of the counter make the id
Uuid1LowBits(n) == str(n % 8) \o "-c883-11e8"

Uuid1(n) == str(n) \o "-c883-11e8"

VARIABLES
  sources,       \* atm_loc_sources, the argument of __init__
  src_idx,       \* position of __init__'s for loop in atm_loc_sources
  atm_loc,       \* self.atm_loc
  pc,            \* where the program is
  error,         \* the exception that ended the program, "none" otherwise
  now,           \* the wall clock, datetime.datetime.now()
  start_time, num_fintrans, num_bytes, ticks, fraud_tick,
  fintran, fintransize, fraudtran, fraudtransize,
  iter,          \* the number of the loop iteration
  uuid_seq,      \* the uuid1 calls made so far
  sent,          \* the datagrams handed to sendto in this iteration
  report,        \* the statistics row logged in the last iteration
  legit_ids,     \* transaction_id of every legitimate datagram sent, in order
  fraud_ids,     \* transaction_id of every fraud datagram sent, in order
  draws,         \* the values random.randint gave for fraud_tick, in order
  opened         \* positions in atm_loc_sources of the files _load_data was given

vars == << sources, src_idx, atm_loc, pc, error, now, start_time, num_fintrans,
           num_bytes, ticks, fraud_tick, fintran, fintransize, fraudtran,
           fraudtransize, iter, uuid_seq, sent, report, legit_ids, fraud_ids,
           draws, opened >>

loadVars == << sources, src_idx, atm_loc, opened >>
statVars == << start_time, num_fintrans, num_bytes >>
tranVars == << fintran, fintransize, fraudtran, fraudtransize >>
logVars == << sent, report, legit_ids, fraud_ids >>

NoTran == [kind |-> "none"]
NoReport == [kind |-> "none"]
EmptyTable == [k \in {} |-> <<>>]

\* ------------------------------------------------------------ loading
\* self.atm_loc[str(atm_counter)] = lat, lon, atm_label
Put(table, key, val) ==
  [k \in (DOMAIN table) \cup {key} |-> IF k = key THEN val ELSE table[k]]

\* the for loop of _load_data from row i on: the table and the counter reached,
\* and whether a row raised IndexError (row[2] of a row with fewer than 3 columns)
RECURSIVE LoadRows(_, _, _, _)
LoadRows(rows, i, atm_counter, table) ==
  IF i > Len(rows) THEN [table |-> table, atm_counter |-> atm_counter, ok |-> TRUE]
  ELSE LET row == rows[i]
       IN  IF Len(row) < 3
           THEN [table |-> table, atm_counter |-> atm_counter, ok |-> FALSE]
           ELSE LoadRows(rows, i + 1, atm_counter + 1,
                         Put(table, str(atm_counter + 1), <<row[2], row[1], row[3]>>))

\* _load_data(atm_loc_data_file): atm_counter starts at 0 for every file
LoadFile(file, table) == LoadRows(file.rows, 1, 0, table)

\* ------------------------------------------------------------ records
\* the dict built by _create_fintran
Fintran(loc, amount, account, uuid, t) ==
  [ timestamp |-> t,
    atm |-> loc[3],
    location |-> [lat |-> loc[1], lon |-> loc[2]],
    amount |-> amount,
    account_id |-> "a" \o str(account),
    transaction_id |-> uuid ]

\* mutant: the marker prefix is forgotten
FraudtranNoMarker(orig, loc, amount, offset, t) ==
  [ timestamp |-> t - offset,
    atm |-> loc[3],
    location |-> [lat |-> loc[1], lon |-> loc[2]],
    amount |-> amount,
    account_id |-> orig.account_id,
    transaction_id |-> orig.transaction_id ]

\* mutant: the offset is taken from the original's timestamp
FraudtranFromOriginalTime(orig, loc, amount, offset, t) ==
  [ timestamp |-> orig.timestamp - offset,
    atm |-> loc[3],
    location |-> [lat |-> loc[1], lon |-> loc[2]],
    amount |-> amount,
    account_id |-> orig.account_id,
    transaction_id |-> "xxx" \o orig.transaction_id ]

\* the dict built by _create_fraudtran from the transaction orig
Fraudtran(orig, loc, amount, offset, t) ==
  [ timestamp |-> t - offset,
    atm |-> loc[3],
    location |-> [lat |-> loc[1], lon |-> loc[2]],
    amount |-> amount,
    account_id |-> orig.account_id,
    transaction_id |-> "xxx" \o orig.transaction_id ]

\* len(str(d)) of a transaction dict d; json.dumps(d) has the same length
\* (the same separators, double quotes for single ones)
ReprLen(d) ==
  Len("{'timestamp': '', 'atm': '', 'location': {'lat': '', 'lon': ''}, 'amount': , 'account_id': '', 'transaction_id': ''}")
  + TIMESTAMP_LEN + Len(d.atm) + Len(d.location.lat) + Len(d.location.lon)
  + Len(str(d.amount)) + Len(d.account_id) + Len(d.transaction_id)

\* sys.getsizeof(str(d)): the size of the Python str object
SizeOf(d) == PY_STR_OVERHEAD + ReprLen(d)

\* what sendto is given: str(json.dumps(d)) + '\n'
Datagram(d) == [data |-> d, nbytes |-> ReprLen(d) + 1]

\* random.choice(self.atm_loc.keys())
LocKeys == DOMAIN atm_loc

\* random.choice(AMOUNTS)
\* mutant: the amount is drawn between the smallest and the largest amount
AmountDrawsRange ==
  { AMOUNTS[1], AMOUNTS[1] + 1, AMOUNTS[Len(AMOUNTS)] }

AmountDraws == { AMOUNTS[i] : i \in 1..Len(AMOUNTS) }

\* mutant: the threshold may be one below FRAUD_TICK_MIN
FraudTickDrawsWide == (FRAUD_TICK_MIN - 1)..FRAUD_TICK_MAX

\* random.randint(FRAUD_TICK_MIN, FRAUD_TICK_MAX)
FraudTickDraws == FRAUD_TICK_MIN..FRAUD_TICK_MAX

\* mutant: fraud is due as soon as the counter reaches the threshold
FraudDueAtThreshold(t, threshold) == t >= threshold

\* mutant: fraud is due one tick late
FraudDueLate(t, threshold) == t > threshold + 1

\* the test of line 192
FraudDue(t, threshold) == t > threshold

\* timedelta.seconds of end_time - start_time
DiffSeconds(end_time, start) == (end_time - start) % SECONDS_PER_DAY

\* the test of line 206
\* mutant: the row is due only after more than SAMPLE_INTERVAL seconds
ReportDueStrict(seconds) == seconds > SAMPLE_INTERVAL

ReportDue(seconds) == seconds > (SAMPLE_INTERVAL - 1)

\* ------------------------------------------------------------ the program
Init ==
  /\ sources \in SourceSamples
  /\ src_idx = 1
  /\ atm_loc = EmptyTable
  /\ pc = "init"
  /\ error = "none"
  /\ now = StartClock
  /\ start_time = 0 /\ num_fintrans = 0 /\ num_bytes = 0
  /\ ticks = 0 /\ fraud_tick = 0
  /\ fintran = NoTran /\ fintransize = 0
  /\ fraudtran = NoTran /\ fraudtransize = 0
  /\ iter = 0 /\ uuid_seq = 0
  /\ sent = <<>> /\ report = NoReport
  /\ legit_ids = <<>> /\ fraud_ids = <<>>
  /\ draws = <<>> /\ opened = <<>>

runVars == << now, start_time, num_fintrans, num_bytes, ticks, fraud_tick,
              fintran, fintransize, fraudtran, fraudtransize, iter, uuid_seq,
              sent, report, legit_ids, fraud_ids, draws >>

\* datagrams sent since run() began
n_legit == Len(legit_ids)
n_fraud == Len(fraud_ids)

\* an exception that nothing catches ends the program
Raise(e) == pc' = "failed" /\ error' = e

\* mutant: a file that cannot be opened is skipped and loading goes on
InitLoadSkipsUnopenable ==
  /\ pc = "init"
  /\ src_idx <= Len(sources)
  /\ opened' = Append(opened, src_idx)
  /\ LET file == sources[src_idx]
     IN  IF ~file.openable
         THEN /\ src_idx' = src_idx + 1
              /\ UNCHANGED << sources, atm_loc, pc, error >>
         ELSE LET r == LoadFile(file, atm_loc)
              IN  /\ atm_loc' = r.table
                  /\ IF r.ok
                     THEN /\ src_idx' = src_idx + 1
                          /\ UNCHANGED << pc, error >>
                     ELSE /\ Raise("IndexError")
                          /\ UNCHANGED src_idx
                  /\ UNCHANGED sources
  /\ UNCHANGED runVars

\* __init__: one pass of `for atm_loc in atm_loc_sources: self._load_data(atm_loc)`
InitLoad ==
  /\ pc = "init"
  /\ src_idx <= Len(sources)
  /\ opened' = Append(opened, src_idx)
  /\ LET file == sources[src_idx]
     IN  IF ~file.openable
         THEN \* open() raises IOError before the try block
              /\ Raise("IOError")
              /\ UNCHANGED << sources, src_idx, atm_loc >>
         ELSE LET r == LoadFile(file, atm_loc)
              IN  /\ atm_loc' = r.table
                  /\ IF r.ok
                     THEN /\ src_idx' = src_idx + 1
                          /\ UNCHANGED << pc, error >>
                     ELSE \* IndexError passes the finally clause and __init__
                          /\ Raise("IndexError")
                          /\ UNCHANGED src_idx
                  /\ UNCHANGED sources
  /\ UNCHANGED runVars

\* __init__ returns: the object exists
InitDone ==
  /\ pc = "init"
  /\ src_idx > Len(sources)
  /\ pc' = "constructed"
  /\ UNCHANGED << loadVars, error >>
  /\ UNCHANGED runVars

\* run(), up to the loop (lines 163-179); run is a method of a constructed object
RunStart ==
  /\ pc = "constructed"
  /\ pc' = "tick"
  /\ start_time' = now
  /\ num_fintrans' = 0 /\ num_bytes' = 0
  /\ ticks' = 0
  /\ \E r \in FraudTickDraws : fraud_tick' = r /\ draws' = Append(draws, r)
  \* atm_loc_sources was a parameter of __init__
  /\ sources' = <<>>
  /\ UNCHANGED << src_idx, atm_loc, opened, error, now, tranVars, iter, uuid_seq, logVars >>

\* mutant: the loop goes on only until the first statistics row
TickUntilReport ==
  /\ pc = "tick"
  /\ report = NoReport
  /\ iter < MaxIter
  /\ ticks' = ticks + 1
  /\ iter' = iter + 1
  /\ report' = NoReport
  /\ pc' = "create"
  /\ UNCHANGED << loadVars, error, now, statVars, fraud_tick, tranVars, uuid_seq,
                  sent, legit_ids, fraud_ids, draws >>

\* lines 183-184
Tick ==
  /\ pc = "tick"
  /\ iter < MaxIter
  /\ ticks' = ticks + 1
  /\ iter' = iter + 1
  /\ report' = NoReport
  /\ pc' = "create"
  /\ UNCHANGED << loadVars, error, now, statVars, fraud_tick, tranVars, uuid_seq,
                  sent, legit_ids, fraud_ids, draws >>

\* line 186: (fintran, fintransize) = self._create_fintran()
CreateFintran ==
  /\ pc = "create"
  /\ IF LocKeys = {}
     THEN \* random.choice of an empty list raises IndexError
          /\ Raise("IndexError")
          /\ UNCHANGED << tranVars, uuid_seq >>
     ELSE \E rloc \in LocKeys, amount \in AmountDraws, account \in AccountSamples :
            LET t == Fintran(atm_loc[rloc], amount, account, Uuid1(uuid_seq + 1), now)
            IN  /\ fintran' = t
                /\ fintransize' = SizeOf(t)
                /\ uuid_seq' = uuid_seq + 1
                /\ pc' = "send"
                /\ UNCHANGED << error, fraudtran, fraudtransize >>
  /\ UNCHANGED << loadVars, now, statVars, ticks, fraud_tick, iter, logVars, draws >>

\* line 187: self._send_fintran(out_socket, json.dumps(fintran));
\* sendto either takes the datagram or raises socket.error
SendFintran ==
  /\ pc = "send"
  /\ \E ok \in BOOLEAN :
       IF ok
       THEN /\ sent' = Append(sent, Datagram(fintran))
            /\ legit_ids' = Append(legit_ids, fintran.transaction_id)
            /\ pc' = "sleep"
            /\ UNCHANGED error
       ELSE /\ Raise("socket.error")
            /\ UNCHANGED << sent, legit_ids >>
  /\ UNCHANGED << loadVars, now, statVars, ticks, fraud_tick, tranVars, iter,
                  uuid_seq, report, fraud_ids, draws >>

\* mutant: the sleep between the send and the fraud decision returns at once
SleepNoDelay ==
  /\ pc = "sleep"
  /\ now' = now
  /\ pc' = "decide"
  /\ UNCHANGED << loadVars, error, statVars, ticks, fraud_tick, tranVars, iter,
                  uuid_seq, logVars, draws >>

\* line 189: sleep(DELAY)
Sleep ==
  /\ pc = "sleep"
  /\ now' = now + DELAY
  /\ pc' = "decide"
  /\ UNCHANGED << loadVars, error, statVars, ticks, fraud_tick, tranVars, iter,
                  uuid_seq, logVars, draws >>

\* mutant: the fraud dict is made by updating the original dict in place
CreateFraudtranInPlace ==
  /\ pc = "decide"
  /\ FraudDue(ticks, fraud_tick)
  /\ \E rloc \in LocKeys, amount \in AmountDraws, offset \in OffsetSamples :
       LET t == Fraudtran(fintran, atm_loc[rloc], amount, offset, now)
       IN  /\ fraudtran' = t
           /\ fintran' = t
           /\ fraudtransize' = SizeOf(t)
  /\ pc' = "fraud_send"
  /\ UNCHANGED << loadVars, error, now, statVars, ticks, fraud_tick,
                  fintransize, iter, uuid_seq, logVars, draws >>

\* lines 192-193: (fraudtran, fraudtransize) = self._create_fraudtran(fintran)
CreateFraudtran ==
  /\ pc = "decide"
  /\ FraudDue(ticks, fraud_tick)
  /\ \E rloc \in LocKeys, amount \in AmountDraws, offset \in OffsetSamples :
       LET t == Fraudtran(fintran, atm_loc[rloc], amount, offset, now)
       IN  /\ fraudtran' = t
           /\ fraudtransize' = SizeOf(t)
  /\ pc' = "fraud_send"
  /\ UNCHANGED << loadVars, error, now, statVars, ticks, fraud_tick, fintran,
                  fintransize, iter, uuid_seq, logVars, draws >>

\* line 194: self._send_fintran(out_socket, json.dumps(fraudtran))
SendFraudtran ==
  /\ pc = "fraud_send"
  /\ \E ok \in BOOLEAN :
       IF ok
       THEN /\ sent' = Append(sent, Datagram(fraudtran))
            /\ fraud_ids' = Append(fraud_ids, fraudtran.transaction_id)
            /\ pc' = "fraud_count"
            /\ UNCHANGED error
       ELSE /\ Raise("socket.error")
            /\ UNCHANGED << sent, fraud_ids >>
  /\ UNCHANGED << loadVars, now, statVars, ticks, fraud_tick, tranVars, iter,
                  uuid_seq, report, legit_ids, draws >>

\* the row logged by lines 207-217 (Python 2 integer division)
ReportRow(n, b, seconds, t) ==
  [ kind |-> "row",
    timestamp |-> t,
    num_fintrans |-> n \div 1000,
    tp_fintrans |-> (n \div 1000) \div seconds,
    num_bytes |-> (b \div 1024) \div 1024,
    tp_bytes |-> ((b \div 1024) \div 1024) \div seconds ]

\* mutant: the row is logged and the counters reset, the window start is not
StatsKeepsWindow(n, b) ==
  /\ LET seconds == DiffSeconds(now, start_time)
     IN  IF ReportDue(seconds)
         THEN /\ report' = ReportRow(n, b, seconds, now)
              /\ num_fintrans' = 0
              /\ num_bytes' = 0
              /\ UNCHANGED start_time
         ELSE /\ report' = NoReport
              /\ num_fintrans' = n
              /\ num_bytes' = b
              /\ UNCHANGED start_time
  /\ fintran' = NoTran /\ fintransize' = 0
  /\ fraudtran' = NoTran /\ fraudtransize' = 0
  /\ sent' = <<>>
  /\ pc' = "tick"

\* lines 203-220, the end of the iteration, with the counters at n and b after
\* lines 195-196 or 200-201.  fintran and fraudtran are bound again (lines
\* 186, 193) before the next iteration reads them: the bindings and the
\* iteration's datagrams are let go here.
Stats(n, b) ==
  /\ LET seconds == DiffSeconds(now, start_time)
     IN  IF ReportDue(seconds)
         THEN /\ report' = ReportRow(n, b, seconds, now)
              /\ start_time' = now
              /\ num_fintrans' = 0
              /\ num_bytes' = 0
         ELSE /\ report' = NoReport
              /\ num_fintrans' = n
              /\ num_bytes' = b
              /\ UNCHANGED start_time
  /\ fintran' = NoTran /\ fintransize' = 0
  /\ fraudtran' = NoTran /\ fraudtransize' = 0
  /\ sent' = <<>>
  /\ pc' = "tick"

\* mutant: the tick counter is not reset after a fraud
CountFraudKeepsTicks ==
  /\ pc = "fraud_count"
  /\ ticks' = ticks
  /\ \E r \in FraudTickDraws : fraud_tick' = r /\ draws' = Append(draws, r)
  /\ Stats(num_fintrans + 2, num_bytes + fintransize + fraudtransize)
  /\ UNCHANGED << loadVars, error, now, iter, uuid_seq, legit_ids, fraud_ids >>

\* lines 195-198, then lines 203-220
CountFraud ==
  /\ pc = "fraud_count"
  /\ ticks' = 0
  /\ \E r \in FraudTickDraws : fraud_tick' = r /\ draws' = Append(draws, r)
  /\ Stats(num_fintrans + 2, num_bytes + fintransize + fraudtransize)
  /\ UNCHANGED << loadVars, error, now, iter, uuid_seq, legit_ids, fraud_ids >>

\* lines 192 and 199-201, then lines 203-220
CountLegit ==
  /\ pc = "decide"
  /\ ~FraudDue(ticks, fraud_tick)
  /\ Stats(num_fintrans + 1, num_bytes + fintransize)
  /\ UNCHANGED << loadVars, error, now, ticks, fraud_tick, iter, uuid_seq,
                  legit_ids, fraud_ids, draws >>

Next ==
  \/ InitLoad
  \/ InitDone
  \/ RunStart
  \/ Tick
  \/ CreateFintran
  \/ SendFintran
  \/ Sleep
  \/ CreateFraudtran
  \/ SendFraudtran
  \/ CountFraud
  \/ CountLegit

Spec == Init /\ [][Next]_vars

\* ------------------------------------------- the program kept running
\* one run: a single source with a single row, the first amount, the first
\* account number and the smallest offset; thresholds and send results are
\* as free as in Next
LiveInputs ==
  /\ fintran # NoTran =>
        fintran.amount = AMOUNTS[1] /\ fintran.account_id = "a" \o str(ACCOUNT_MIN)
  /\ fraudtran # NoTran =>
        fraudtran.amount = AMOUNTS[1] /\ now - fraudtran.timestamp = FRAUD_OFFSET_MIN

InitLive == Init /\ sources = << CsvFile(<<RowA>>) >>

LiveNext ==
  \/ InitLoad /\ LiveInputs'
  \/ InitDone /\ LiveInputs'
  \/ RunStart /\ LiveInputs'
  \/ Tick /\ LiveInputs'
  \/ CreateFintran /\ LiveInputs'
  \/ SendFintran /\ LiveInputs'
  \/ Sleep /\ LiveInputs'
  \/ CreateFraudtran /\ LiveInputs'
  \/ SendFraudtran /\ LiveInputs'
  \/ CountFraud /\ LiveInputs'
  \/ CountLegit /\ LiveInputs'

\* the interpreter goes on executing the one thread of the program, and
\* sleep(DELAY) returns: a step that can be taken is taken
SpecLive == InitLive /\ [][LiveNext]_vars /\ WF_vars(LiveNext)

\* ------------------------------------------------------------ properties
RunPcs == { "tick", "create", "send", "sleep", "decide", "fraud_send",
            "fraud_count" }
InRun == pc \in RunPcs

\* _load_data raised: __init__ did not return
LoadAborted == pc = "failed" /\ src_idx <= Len(sources)

\* C1: in every iteration a fraud transaction is emitted if and only if the
\* tick counter, incremented once at the top of the iteration and reset to 0
\* on each fraud emission, is strictly greater than the drawn threshold; and
\* the threshold, first draw and every redraw, lies in [5, 15].
C1_FraudIffTicksExceedThreshold ==
  /\ [][ pc = "decide" => ((pc' = "fraud_send") <=> (ticks > fraud_tick)) ]_vars
  /\ [][ fraud_ids' # fraud_ids => ticks > fraud_tick ]_vars
  /\ [][ (pc = "decide" /\ pc' = "tick") =>
           (~(ticks > fraud_tick) /\ Len(sent) = 1 /\ fraud_ids' = fraud_ids) ]_vars
  /\ [][ ticks' # ticks =>
           \/ pc = "constructed" /\ ticks' = 0
           \/ pc = "tick" /\ ticks' = ticks + 1
           \/ pc = "fraud_count" /\ n_fraud = n_fraud' /\ Len(sent) = 2 /\ ticks' = 0 ]_vars
  /\ [](InRun => /\ fraud_tick \in FRAUD_TICK_MIN..FRAUD_TICK_MAX
                 /\ fraud_tick \in 5..15
                 /\ \A i \in 1..Len(draws) : draws[i] \in 5..15)

\* a fraud transaction went out and the threshold was drawn again
C1_Witness ==
  /\ pc = "tick" /\ n_fraud = 1 /\ ticks = 0
  /\ Len(draws) = 2 /\ draws[1] = 7 /\ fraud_tick = 15 /\ iter = 8

\* C2: every fraud transaction has exactly one originating legitimate
\* transaction, the one created and sent in the same loop iteration, and
\* creating the fraud transaction leaves the originating one as it was.
C2_FraudHasOneSameCycleOrigin ==
  /\ [] ( fraudtran # NoTran =>
            /\ fintran # NoTran
            /\ Len(sent) >= 1 /\ sent[1].data = fintran
            /\ Len(legit_ids) = iter
            /\ legit_ids[iter] = fintran.transaction_id
            /\ fraudtran.transaction_id = "xxx" \o legit_ids[iter] )
  /\ [] ( \A j \in 1..Len(fraud_ids) :
            Cardinality({ i \in 1..Len(legit_ids) :
                            fraud_ids[j] = "xxx" \o legit_ids[i] }) = 1 )
  /\ [][ fraud_ids' # fraud_ids =>
           fraud_ids' = Append(fraud_ids, "xxx" \o legit_ids[iter]) ]_vars
  /\ [][ (fraudtran = NoTran /\ fraudtran' # NoTran) => fintran' = fintran ]_vars

\* the second fraud transaction of a run has gone out
C2_Witness ==
  /\ pc = "fraud_count" /\ Len(sent) = 2 /\ n_fraud = 2
  /\ sent[2].data = fraudtran /\ sent[1].data = fintran

\* C3: a fraud transaction carries the account_id of the transaction it was
\* made from, and its transaction_id is 'xxx' followed by that transaction's.
C3_FraudCopiesAccountAndMarksId ==
  /\ fraudtran # NoTran =>
       /\ fraudtran.account_id = fintran.account_id
       /\ fraudtran.transaction_id = "xxx" \o fintran.transaction_id
  /\ Len(sent) = 2 =>
       /\ sent[2].data.account_id = sent[1].data.account_id
       /\ sent[2].data.transaction_id = "xxx" \o sent[1].data.transaction_id

C3_Witness ==
  /\ pc = "fraud_count" /\ Len(sent) = 2
  /\ sent[2].data.account_id = "a2"
  /\ sent[2].data.transaction_id = "xxx6-c883-11e8"

\* every file opens and every row has at least 3 columns
AllWellFormed(srcs) ==
  \A f \in 1..Len(srcs) :
    /\ srcs[f].openable
    /\ \A r \in 1..Len(srcs[f].rows) : Len(srcs[f].rows[r]) >= 3

\* the rows of the files, in file-then-row order
RECURSIVE AllRows(_)
AllRows(srcs) ==
  IF srcs = <<>> THEN <<>> ELSE Head(srcs).rows \o AllRows(Tail(srcs))

\* C4: N well-formed rows in one file give N entries keyed 1..N in row order;
\* two files of N1 and N2 rows give N1+N2 entries keyed 1..N1+N2, none of the
\* first file's entries overwritten by the second's.
C4_KeysContinueAcrossFiles ==
  (pc = "constructed" /\ AllWellFormed(sources)) =>
     LET rows == AllRows(sources)
     IN  /\ DOMAIN atm_loc = { str(i) : i \in 1..Len(rows) }
         /\ \A i \in 1..Len(rows) :
              atm_loc[str(i)] = <<rows[i][2], rows[i][1], rows[i][3]>>

\* every draw of the threshold gave FRAUD_TICK_MIN
ThresholdFixedAtMin ==
  /\ draws # <<>>
  /\ \A i \in 1..Len(draws) : draws[i] = FRAUD_TICK_MIN

\* C5: with the threshold fixed at FRAUD_TICK_MIN, FRAUD_TICK_MIN+1 iterations
\* emit FRAUD_TICK_MIN+1 legitimate transactions and one fraud transaction,
\* which goes out in the last iteration and is made from that iteration's
\* legitimate transaction.
C5_OneFraudAfterMinPlusOneTicks ==
  /\ (ThresholdFixedAtMin /\ InRun /\ iter <= FRAUD_TICK_MIN) => n_fraud = 0
  /\ (ThresholdFixedAtMin /\ pc = "tick" /\ iter = FRAUD_TICK_MIN + 1) =>
       /\ n_legit = FRAUD_TICK_MIN + 1
       /\ n_fraud = 1
       /\ fraud_ids[1] = "xxx" \o legit_ids[FRAUD_TICK_MIN + 1]
       /\ legit_ids[FRAUD_TICK_MIN + 1] = Uuid1(FRAUD_TICK_MIN + 1)

C5_Witness ==
  /\ pc = "tick" /\ iter = 6 /\ draws = <<5, 5>>
  /\ n_legit = 6 /\ n_fraud = 1

\* C6: a report row is followed at once by num_fintrans = 0, num_bytes = 0 and
\* start_time equal to the report time; an iteration that logs no row resets
\* nothing.
C6_ReportResetsWindow ==
  /\ [] ( (pc = "tick" /\ report # NoReport) =>
            /\ num_fintrans = 0
            /\ num_bytes = 0
            /\ start_time = report.timestamp
            /\ start_time = now )
  /\ [][ (pc' = "tick" /\ pc # "tick" /\ pc # "constructed" /\ report' = NoReport) =>
           /\ num_fintrans' > num_fintrans
           /\ num_bytes' > num_bytes
           /\ start_time' = start_time ]_vars
  /\ [][ (num_fintrans' < num_fintrans \/ num_bytes' < num_bytes
            \/ (start_time' # start_time /\ pc # "constructed")) =>
           (pc' = "tick" /\ report' # NoReport) ]_vars

C6_Witness ==
  /\ pc = "tick" /\ report # NoReport /\ iter = 10
  /\ start_time = StartClock + 10 * DELAY /\ num_fintrans = 0

\* C7: a failed send does not stop the loop.
C7_SendFailureNonFatal == error = "socket.error" => InRun

\* C8: an empty location table is rejected when the generator is constructed:
\* no object exists, and run() never starts, with an empty table.
C8_EmptyTableRejected ==
  (pc = "constructed" \/ InRun) => DOMAIN atm_loc # {}

\* C9: a row with fewer than 3 columns does not abort the load.
C9_MalformedRowSkipped == ~(LoadAborted /\ error = "IndexError")

\* C10: a file that cannot be opened ends construction with IOError: no later
\* file is loaded and run() never starts.
C10_UnopenableFileIsFatal ==
  \A i \in 1..Len(opened) :
    (opened[i] <= Len(sources) /\ ~sources[opened[i]].openable) =>
       /\ pc = "failed" /\ error = "IOError"
       /\ i = Len(opened) /\ opened[i] = src_idx
       /\ opened = [k \in 1..src_idx |-> k]
       /\ iter = 0 /\ draws = <<>> /\ legit_ids = <<>> /\ uuid_seq = 0

\* the first of two files cannot be opened; the second one could
C10_Witness ==
  /\ pc = "failed" /\ error = "IOError"
  /\ Len(sources) = 2 /\ sources[2].openable /\ sources[2].rows # <<>>
  /\ opened = <<1>> /\ src_idx = 1 /\ atm_loc = EmptyTable

\* C11: every transaction, legitimate or fraudulent, carries one of the six
\* amounts 20, 50, 100, 200, 300, 400.
C11_AmountIsOneOfSix ==
  LET six == {20, 50, 100, 200, 300, 400}
  IN  /\ fintran # NoTran => fintran.amount \in six
      /\ fraudtran # NoTran => fraudtran.amount \in six
      /\ \A i \in 1..Len(sent) : sent[i].data.amount \in six

\* a legitimate transaction of 20 and its fraud of 400 have both been sent
C11_Witness ==
  /\ pc = "fraud_count" /\ Len(sent) = 2
  /\ sent[1].data.amount = 20 /\ sent[2].data.amount = 400

\* C12: the timestamp of a fraudulent transaction lies a whole number of
\* seconds, at least 60 and at most 600, before the moment it is created.
C12_FraudTimestampBeforeCreation ==
  fraudtran # NoTran =>
    /\ fraudtran.timestamp < now
    /\ now - fraudtran.timestamp \in 60..600

\* a fraud created with the largest offset
C12_Witness ==
  /\ pc = "fraud_send" /\ fraudtran # NoTran
  /\ now - fraudtran.timestamp = 600

\* C13: the loop of run() has no exit of its own. Unless a step raises, the
\* iteration that has begun completes and the next one begins; an iteration
\* sends exactly one legitimate transaction and at most one fraudulent one,
\* so legitimate transactions keep being sent.
C13_LoopNeverEndsByItself ==
  /\ [](pc = "tick" /\ iter < MaxIter => ENABLED << LiveNext >>_vars)
  /\ [](pc = "tick" => n_legit = iter /\ n_fraud <= iter)
  /\ [][pc' = "tick" /\ pc \in {"decide", "fraud_count"} =>
          /\ Len(sent) \in {1, 2}
          /\ n_legit' = iter /\ sent[1].data.transaction_id = legit_ids[iter]
          /\ Len(sent) = 2 => sent[2].data.transaction_id = fraud_ids[n_fraud]
          /\ Len(sent) = 1 => (n_fraud = 0 \/ fraud_ids[n_fraud] # "xxx" \o legit_ids[iter])
      ]_vars
  /\ \A k \in 0..(MaxIter - 1) :
        (pc = "tick" /\ iter = k)
          ~> (pc = "failed" \/ (pc = "tick" /\ iter = k + 1 /\ n_legit = k + 1))

\* sixteen iterations have completed, two of them with a fraud
C13_Witness ==
  /\ pc = "tick" /\ iter = 16 /\ n_legit = 16 /\ n_fraud = 2
  /\ report = NoReport

\* the ids of all transactions sent so far
SentIds ==
  { legit_ids[j] : j \in 1..n_legit } \cup { fraud_ids[i] : i \in 1..n_fraud }

\* C14: transaction ids are unique: no two legitimate transactions share an
\* id, no legitimate transaction is the origin of two frauds, and no fraud
\* id equals a legitimate id or another fraud id. Stated of each send: the id
\* sent differs from every id sent before.
C14_TransactionIdsUnique ==
  \* no id is in use before the first send
  /\ [](pc = "init" => legit_ids = <<>> /\ fraud_ids = <<>>)
  \* the id of each legitimate transaction sent is new
  /\ [][legit_ids' # legit_ids =>
          /\ legit_ids' = Append(legit_ids, fintran.transaction_id)
          /\ fintran.transaction_id \notin SentIds
          /\ UNCHANGED fraud_ids]_vars
  \* the id of each fraud sent is new, and its origin is the legitimate
  \* transaction of this iteration, which had no fraud before
  /\ [][fraud_ids' # fraud_ids =>
          /\ fraud_ids' = Append(fraud_ids, fraudtran.transaction_id)
          /\ fraudtran.transaction_id \notin SentIds
          /\ fraudtran.transaction_id = "xxx" \o legit_ids[n_legit]
          /\ UNCHANGED legit_ids]_vars

\* thirteen legitimate and two fraudulent transactions have been sent
C14_Witness ==
  /\ pc = "fraud_count" /\ n_legit = 13 /\ n_fraud = 2
  /\ fraud_ids[1] = "xxx" \o legit_ids[6] /\ fraud_ids[2] = "xxx" \o legit_ids[13]

\* the bytes handed to sendto for the datagrams ds[i], ds[i+1], ...
RECURSIVE SentBytes(_, _)
SentBytes(ds, i) ==
  IF i > Len(ds) THEN 0 ELSE ds[i].nbytes + SentBytes(ds, i + 1)

\* C15: an iteration adds to the transaction count the number of
\* transactions it sent (one, or two with a fraud) and to the byte count the
\* byte lengths of the serialized payloads it sent.
C15_CountsMatchWhatWasSent ==
  [][(pc' = "tick" /\ pc \in {"decide", "fraud_count"} /\ report' = NoReport) =>
        /\ num_fintrans' = num_fintrans + Len(sent)
        /\ num_bytes' = num_bytes + SentBytes(sent, 1)
    ]_vars

\* the order of the steps of one iteration
StepOrder ==
  { <<"tick", "create">>, <<"create", "send">>, <<"send", "sleep">>,
    <<"sleep", "decide">>, <<"decide", "fraud_send">>,
    <<"fraud_send", "fraud_count">>, <<"fraud_count", "tick">>,
    <<"decide", "tick">> }

\* C16 as stated: the delay is slept only after the statistics are updated,
\* so no time passes between the send of the legitimate transaction and the
\* fraud decision (nor the creation of the fraud).
C16_NoSleepBeforeFraudDecision ==
  pc \in {"decide", "fraud_send", "fraud_count"} => now = fintran.timestamp

\* C16, amended: an iteration increments the tick counter, creates and sends
\* the legitimate transaction, sleeps for the delay, then decides on fraud
\* and creates and sends the fraud, then updates the statistics; the delay is
\* slept between the legitimate send and the fraud decision and nowhere else.
C16_SleepBetweenSendAndFraudDecision ==
  /\ [][(InRun /\ pc' # pc) => (pc' = "failed" \/ <<pc, pc'>> \in StepOrder)]_vars
  /\ [][now' # now =>
          /\ pc = "sleep" /\ pc' = "decide" /\ now' = now + DELAY
          /\ Len(sent) = 1 /\ sent[1].data = fintran
          /\ UNCHANGED << num_fintrans, num_bytes, ticks, fraud_tick >>
      ]_vars
  /\ [](pc \in {"decide", "fraud_send", "fraud_count"} =>
          /\ now = fintran.timestamp + DELAY
          /\ Len(sent) >= 1 /\ sent[1].data = fintran)
  /\ [][(num_fintrans' # num_fintrans \/ num_bytes' # num_bytes) =>
          /\ pc \in {"decide", "fraud_count"} /\ pc' = "tick"
          /\ pc = "fraud_count" <=> Len(sent) = 2
          /\ now' = now
      ]_vars
  /\ [][ticks' = ticks + 1 => pc = "tick" /\ sent = <<>>]_vars

\* the fraud is being sent one delay after the legitimate transaction was
C16_Witness ==
  /\ pc = "fraud_send" /\ Len(sent) = 1 /\ sent[1].data = fintran
  /\ fraudtran # NoTran /\ now = fintran.timestamp + DELAY

C18_FraudTimestampBeforeOriginal ==
  fraudtran # NoTran =>
    fintran.timestamp - fraudtran.timestamp \in 60..600

\* the iterations taken by the thresholds ds[1..n]: each threshold d lets d
\* iterations pass and makes the next one the fraud
RECURSIVE GapSum(_, _)
GapSum(ds, n) == IF n = 0 THEN 0 ELSE GapSum(ds, n - 1) + ds[n] + 1

C20_TicksBoundedByThreshold ==
  /\ []((InRun \/ (pc = "failed" /\ draws # <<>>)) =>
          /\ 0 <= ticks /\ ticks <= fraud_tick + 1
          /\ fraud_tick + 1 <= FRAUD_TICK_MAX + 1
          /\ fraud_tick = draws[Len(draws)])
  /\ [](pc = "tick" => ticks <= fraud_tick)
  /\ [][(InRun /\ draws' # draws) =>
          /\ pc = "fraud_count" /\ Len(sent) = 2
          /\ sent[2].data.transaction_id = fraud_ids[n_fraud]
          /\ ticks' = 0]_vars
  /\ [][(InRun /\ ticks' < ticks) => ticks' = 0 /\ Len(draws') = Len(draws) + 1]_vars

\* the largest threshold has been passed: the sixteenth tick sends a fraud
C20_Witness ==
  /\ pc = "fraud_send" /\ ticks = 16 /\ fraud_tick = 15
  /\ fraudtran # NoTran /\ draws = <<15>>

====
